---- MODULE Spec2Model ----
(***************************************************************************)
(* Model of the weather service's two-level cache (src/src/cache.ts) and   *)
(* of the /api/forecast source-resolution handler (src/src/imsApi.ts).     *)
(*                                                                         *)
(* Time is counted in days: Date.now() is the variable now, and the two    *)
(* cache durations (48h, 24h) are 2 and 1.                                 *)
(***************************************************************************)
EXTENDS Integers, Sequences, FiniteSets, TLC

\* ------------------------------------------------------------------ bounds
\* Last day the clock reaches.
MaxTime == 3

\* ------------------------------------------------------- JavaScript values
\* The values a producer can hand to the cache: two falsy ones (null, 0)
\* and two ordinary JSON payloads.
Null == "null"
Values == {"null", "zero", "A", "B"}

\* JavaScript truthiness, as used by `if (memoryData)` and `if (fileData)`.
Truthy(v) == v \notin {"null", "zero", "NaN"}

\* JSON.parse(JSON.stringify(v)): NaN is written as null.
JsonRoundTrip(v) == IF v = "NaN" THEN Null ELSE v

\* ------------------------------------------------------------ cache.ts
CacheTypes == {"stations", "forecast"}

\* Parameter sets used by the callers (stationId, from, to).
ParamSet == {[stationId |-> 1, from |-> 0, to |-> 1]}

NoKey == <<>>

CACHE_DURATIONS == [stations |-> 2, forecast |-> 1]

\* options.duration values: 0 stands for "not given".
DurationOptions == {0, 1}

getCacheKey(type, params) ==
    IF type = "stations" THEN <<"stations_list">>
    ELSE IF type = "forecast"
         THEN <<"forecast", params.stationId, params.from, params.to>>
         ELSE NoKey

Keys == {getCacheKey(t, p) : t \in CacheTypes, p \in ParamSet}

\* Map.prototype.delete / Map.prototype.set on a table kept as a function
\* whose domain is the set of keys present.
Without(f, k) == [x \in DOMAIN f \ {k} |-> f[x]]
With(f, k, e) == [x \in DOMAIN f \cup {k} |-> IF x = k THEN e ELSE f[x]]

isExpired(timestamp, duration, t) == t - timestamp > duration

\* Variant: an expired entry is reported as a miss but left in the table.
getFromMemory_keepExpired(mem, key, duration, t) ==
    IF key \notin DOMAIN mem \/ isExpired(mem[key].timestamp, duration, t)
    THEN [data |-> Null, mem |-> mem]
    ELSE [data |-> mem[key].data, mem |-> mem]

getFromMemory(mem, key, duration, t) ==
    IF key \notin DOMAIN mem
    THEN [data |-> Null, mem |-> mem]
    ELSE IF isExpired(mem[key].timestamp, duration, t)
         THEN [data |-> Null, mem |-> Without(mem, key)]
         ELSE [data |-> mem[key].data, mem |-> mem]

setInMemory(mem, key, data, t) ==
    With(mem, key, [data |-> data, timestamp |-> t])

\* disk is the state of the durable store: "ok", or "down" when every
\* fs call on CACHE_DIR fails.  A failed readFile lands in the catch block,
\* which returns null: error is the error that leaves the function.
getFromFile(files, mem, key, duration, t, disk) ==
    IF disk # "ok" \/ key \notin DOMAIN files
    THEN [data |-> Null, mem |-> mem, files |-> files, error |-> "none"]
    ELSE IF isExpired(files[key].timestamp, duration, t)
         THEN [data |-> Null, mem |-> mem, files |-> Without(files, key),
               error |-> "none"]
         ELSE [data |-> files[key].data,
               mem |-> setInMemory(mem, key, files[key].data, t),
               files |-> files, error |-> "none"]

\* Variant: writeFile outside the try block, its failure leaves the function.
setInFile_noCatch(files, key, data, t, disk) ==
    IF disk = "ok"
    THEN [files |-> With(files, key, [data |-> JsonRoundTrip(data), timestamp |-> t]),
          error |-> "none"]
    ELSE [files |-> files, error |-> "fs"]

\* A failed writeFile is logged and dropped.
setInFile(files, key, data, t, disk) ==
    IF disk = "ok"
    THEN [files |-> With(files, key, [data |-> JsonRoundTrip(data), timestamp |-> t]),
          error |-> "none"]
    ELSE [files |-> files, error |-> "none"]

\* A fetcher is absent, returns a value, or throws.
Fetchers ==
    {[kind |-> "none", value |-> Null], [kind |-> "throws", value |-> Null]}
    \cup {[kind |-> "returns", value |-> v] : v \in Values}

NoFetcher == [kind |-> "none", value |-> Null]
Returning(v) == [kind |-> "returns", value |-> v]

\* Variant: a failed fetch is remembered as an empty result.
fetchAndCache_cacheFailure(f, key, fetcher, t, disk) ==
    IF fetcher.kind = "returns"
    THEN LET w == setInFile(f.files, key, fetcher.value, t, disk)
         IN  [result |-> fetcher.value, error |-> w.error, fetcherCalled |-> TRUE,
              mem |-> setInMemory(f.mem, key, fetcher.value, t), files |-> w.files]
    ELSE IF fetcher.kind = "throws"
    THEN [result |-> Null, error |-> "fetcher", fetcherCalled |-> TRUE,
          mem |-> setInMemory(f.mem, key, Null, t), files |-> f.files]
    ELSE [result |-> Null, error |-> "none", fetcherCalled |-> FALSE,
          mem |-> f.mem, files |-> f.files]

\* The miss path of get: call the fetcher if one is given, cache what it
\* returns in both tiers, rethrow what it throws.  f is the state left by
\* the two lookups.
fetchAndCache(f, key, fetcher, t, disk) ==
    IF fetcher.kind = "returns"
    THEN LET w == setInFile(f.files, key, fetcher.value, t, disk)
         IN  [result |-> fetcher.value, error |-> w.error, fetcherCalled |-> TRUE,
              mem |-> setInMemory(f.mem, key, fetcher.value, t), files |-> w.files]
    ELSE IF fetcher.kind = "throws"
    THEN [result |-> Null, error |-> "fetcher", fetcherCalled |-> TRUE,
          mem |-> f.mem, files |-> f.files]
    ELSE [result |-> Null, error |-> "none", fetcherCalled |-> FALSE,
          mem |-> f.mem, files |-> f.files]

duration_for(type, durationOpt) ==
    IF durationOpt # 0 THEN durationOpt ELSE CACHE_DURATIONS[type]

\* The outcome of get(type, params, {fetcher, duration}) called at time t:
\* what it returns, the error it throws, what it called, and the two tiers
\* afterwards.
get(mem, files, type, params, fetcher, durationOpt, t, disk) ==
    LET key == getCacheKey(type, params)
        duration == duration_for(type, durationOpt)
        m == getFromMemory(mem, key, duration, t)
        f == getFromFile(files, m.mem, key, duration, t, disk)
        c == fetchAndCache(f, key, fetcher, t, disk)
    IN  IF key = NoKey
        THEN [result |-> Null, error |-> "none", fetcherCalled |-> FALSE,
              fileRead |-> FALSE, mem |-> mem, files |-> files]
        ELSE IF Truthy(m.data)
        THEN [result |-> m.data, error |-> "none", fetcherCalled |-> FALSE,
              fileRead |-> FALSE, mem |-> m.mem, files |-> files]
        ELSE IF f.error # "none"
        THEN [result |-> Null, error |-> f.error, fetcherCalled |-> FALSE,
              fileRead |-> TRUE, mem |-> f.mem, files |-> f.files]
        ELSE IF Truthy(f.data)
        THEN [result |-> f.data, error |-> "none", fetcherCalled |-> FALSE,
              fileRead |-> TRUE, mem |-> f.mem, files |-> f.files]
        ELSE [result |-> c.result, error |-> c.error,
              fetcherCalled |-> c.fetcherCalled, fileRead |-> TRUE,
              mem |-> c.mem, files |-> c.files]

\* set(type, data, params): both tiers are written.
set(mem, files, type, data, params, t, disk) ==
    LET key == getCacheKey(type, params)
        w == setInFile(files, key, data, t, disk)
    IN  IF key = NoKey
        THEN [mem |-> mem, files |-> files, error |-> "none"]
        ELSE [mem |-> setInMemory(mem, key, data, t), files |-> w.files,
              error |-> w.error]

\* Variant: clear() that forgets the files.
clearFiles_memoryOnly(files, disk) == files

\* clear(): the Map is emptied, then every file of CACHE_DIR is unlinked; a
\* failed readdir or unlink is logged and dropped.
clearFiles(files, disk) ==
    IF disk = "ok" THEN [x \in {} |-> Null] ELSE files

\* ----------------------------------------------- forecast values and dates
\* A formatted field of a forecast point: null, the text 'N/A', or a number
\* (in tenths, as printed by toFixed).
NullField == [kind |-> "null", v |-> 0]
NA == [kind |-> "na", v |-> 0]
Num(x) == [kind |-> "num", v |-> x]

\* The period of the query; "none" is a query without period.
Periods == {"today", "week", "month", "none"}

\* period || 'today'
OrToday(period) == IF period = "none" THEN "today" ELSE period

\* Dates are day numbers; today is the UTC date of the clock.
getForecastDateRange(period, today) ==
    [from |-> today,
     to |-> today + (CASE period = "today" -> 1
                       [] period = "week" -> 6
                       [] period = "month" -> 29
                       [] OTHER -> 1)]

\* utils.getDateRange: the window that ends today.
getDateRange(period, today) ==
    [from |-> today - (CASE period = "today" -> 2
                         [] period = "week" -> 7
                         [] period = "month" -> 30
                         [] OTHER -> 2),
     to |-> today]

\* The date window of each route that takes a period.
stationDataDateRange(period, today) == getDateRange(OrToday(period), today)
stationDetailDateRange(period, today) == getDateRange(OrToday(period), today)

\* Variant: the forecast route asks for the window that ends today.
forecastDateRange_historical(period, today) == getDateRange(OrToday(period), today)

forecastDateRange(period, today) == getForecastDateRange(OrToday(period), today)

\* Keys of the aggregation buckets, compared as localeCompare compares the
\* zero-padded strings: position by position.
KeyLeq(a, b) ==
    \/ a = b
    \/ \E i \in 1..Len(a) : a[i] < b[i] /\ \A j \in 1..(i - 1) : a[j] = b[j]

RECURSIVE SortKeys(_)
SortKeys(S) ==
    IF S = {} THEN <<>>
    ELSE LET m == CHOOSE m \in S : \A x \in S : KeyLeq(m, x)
         IN  <<m>> \o SortKeys(S \ {m})

\* ------------------------------------------------- imsApi.ts: station data
ChannelIds == <<1, 2, 3, 4, 5, 6, 7, 8, 9, 10>>

\* Variant: one failed fetch fails the batch, which then yields nothing.
getStationDataMultiChannel_failFast(channelIds, fetch) ==
    IF \E i \in 1..Len(channelIds) : ~fetch[channelIds[i]].ok
    THEN <<>>
    ELSE [i \in 1..Len(channelIds) |->
             [channelId |-> channelIds[i], data |-> [data |-> fetch[channelIds[i]].readings]]]

\* fetch[id] is the outcome of getStationData for channel id: ok is false when
\* it throws, else readings are the readings of the response.
getStationDataMultiChannel(channelIds, fetch) ==
    LET results == [i \in 1..Len(channelIds) |->
                       [channelId |-> channelIds[i], ok |-> fetch[channelIds[i]].ok,
                        data |-> [data |-> fetch[channelIds[i]].readings]]]
        kept == SelectSeq(results, LAMBDA r : r.ok)
    IN  [i \in 1..Len(kept) |-> [channelId |-> kept[i].channelId, data |-> kept[i].data]]

\* ------------------------------------------------------ utils.ts: rollups
\* An object without properties.
Empty0 == [x \in {} |-> 0]

\* A reading's datetime is <<day, hour, minute>>, in the zone of the server.
hourKey(reading) == <<reading.datetime[1], reading.datetime[2]>>
dayKey(reading) == <<reading.datetime[1]>>

\* readingTime > lastTempTime
Later(a, b) == a # b /\ KeyLeq(b, a)

RECURSIVE SeqSum(_)
SeqSum(q) == IF q = <<>> THEN 0 ELSE Head(q) + SeqSum(Tail(q))

\* (sum / n).toFixed(1) and (sum / n).toFixed(0) on values held in tenths.
toFixed1(sum, n) == Num((2 * sum + n) \div (2 * n))
toFixed0(sum, n) == Num(10 * ((2 * sum + 10 * n) \div (20 * n)))

NewHour == [temp |-> <<>>, humidity |-> <<>>, windSpeed |-> <<>>,
            windDir |-> <<>>, rain |-> <<>>]

\* The body of the inner forEach of aggregateHourly: one reading of a channel.
HourlyReading(hourlyData, channelId, reading) ==
    LET k == hourKey(reading)
        d == IF k \in DOMAIN hourlyData THEN hourlyData ELSE With(hourlyData, k, NewHour)
        value == reading.channels[1].value
    IN  IF Len(reading.channels) = 0 THEN d
        ELSE IF channelId = 7 THEN [d EXCEPT ![k].temp = Append(@, value)]
        ELSE IF channelId = 8 THEN [d EXCEPT ![k].humidity = Append(@, value)]
        ELSE IF channelId = 4 THEN [d EXCEPT ![k].windSpeed = Append(@, value)]
        ELSE IF channelId = 5 THEN [d EXCEPT ![k].windDir = Append(@, value)]
        ELSE IF channelId = 1 THEN [d EXCEPT ![k].rain = Append(@, value)]
        ELSE d

\* The forEach loops. (The test of d computes d before the loop goes on, so
\* that the evaluation does not nest as deep as the input is long.)
RECURSIVE HourlyReadings(_, _, _)
HourlyReadings(hourlyData, channelId, readings) ==
    IF readings = <<>> THEN hourlyData
    ELSE LET d == HourlyReading(hourlyData, channelId, Head(readings))
             rest == Tail(readings)
         IN  IF d = d /\ rest = rest
             THEN HourlyReadings(d, channelId, rest)
             ELSE d

RECURSIVE HourlyChannels(_, _)
HourlyChannels(hourlyData, channels) ==
    IF channels = <<>> THEN hourlyData
    ELSE LET d == HourlyReadings(hourlyData, Head(channels).channelId,
                                 Head(channels).data.data)
             rest == Tail(channels)
         IN  IF d = d /\ rest = rest
             THEN HourlyChannels(d, rest)
             ELSE d

Mean1(q) == IF Len(q) > 0 THEN toFixed1(SeqSum(q), Len(q)) ELSE NullField
Mean0(q) == IF Len(q) > 0 THEN toFixed0(SeqSum(q), Len(q)) ELSE NullField
\* Variant: the total is averaged like the other fields.
Sum1_mean(q) == IF Len(q) > 0 THEN toFixed1(SeqSum(q), Len(q)) ELSE NullField

Sum1(q) == IF Len(q) > 0 THEN toFixed1(SeqSum(q), 1) ELSE NullField

\* The map over the sorted keys of hourlyData that ends aggregateHourly.
HourlyRows(hourlyData, keys) ==
    [i \in 1..Len(keys) |->
        [time |-> keys[i],
         temp |-> Mean1(hourlyData[keys[i]].temp),
         humidity |-> Mean0(hourlyData[keys[i]].humidity),
         windSpeed |-> Mean1(hourlyData[keys[i]].windSpeed),
         windDir |-> Mean0(hourlyData[keys[i]].windDir),
         rain |-> Sum1(hourlyData[keys[i]].rain)]]

\* Variant: the final sort compares b with a, latest hour first.
HourlySorted_descending(hourlyData) ==
    LET keys == SortKeys(DOMAIN hourlyData)
    IN  HourlyRows(hourlyData, [i \in 1..Len(keys) |-> keys[Len(keys) + 1 - i]])

HourlySorted(hourlyData) == HourlyRows(hourlyData, SortKeys(DOMAIN hourlyData))

aggregateHourly(channels) == HourlySorted(HourlyChannels(Empty0, channels))

NewDay == [temps |-> <<>>, lastTemp |-> NullField, lastTempTime |-> <<>>,
           humidity |-> <<>>, windSpeed |-> <<>>, rain |-> <<>>]

\* Variant: the current temperature is the one read last, whatever its time.
DailyReading_lastSeen(dailyData, channelId, reading) ==
    LET k == dayKey(reading)
        d == IF k \in DOMAIN dailyData THEN dailyData ELSE With(dailyData, k, NewDay)
        value == reading.channels[1].value
    IN  IF Len(reading.channels) = 0 THEN d
        ELSE IF channelId = 7
        THEN [d EXCEPT ![k].temps = Append(@, value),
                       ![k].lastTemp = Num(value),
                       ![k].lastTempTime = reading.datetime]
        ELSE IF channelId = 8 THEN [d EXCEPT ![k].humidity = Append(@, value)]
        ELSE IF channelId = 4 THEN [d EXCEPT ![k].windSpeed = Append(@, value)]
        ELSE IF channelId = 1 THEN [d EXCEPT ![k].rain = Append(@, value)]
        ELSE d

\* The body of the inner forEach of aggregateDaily.
DailyReading(dailyData, channelId, reading) ==
    LET k == dayKey(reading)
        d == IF k \in DOMAIN dailyData THEN dailyData ELSE With(dailyData, k, NewDay)
        value == reading.channels[1].value
    IN  IF Len(reading.channels) = 0 THEN d
        ELSE IF channelId = 7
        THEN IF d[k].lastTempTime = <<>> \/ Later(reading.datetime, d[k].lastTempTime)
             THEN [d EXCEPT ![k].temps = Append(@, value),
                            ![k].lastTemp = Num(value),
                            ![k].lastTempTime = reading.datetime]
             ELSE [d EXCEPT ![k].temps = Append(@, value)]
        ELSE IF channelId = 8 THEN [d EXCEPT ![k].humidity = Append(@, value)]
        ELSE IF channelId = 4 THEN [d EXCEPT ![k].windSpeed = Append(@, value)]
        ELSE IF channelId = 1 THEN [d EXCEPT ![k].rain = Append(@, value)]
        ELSE d

\* The forEach loops (d is computed before the loop goes on, as above).
RECURSIVE DailyReadings(_, _, _)
DailyReadings(dailyData, channelId, readings) ==
    IF readings = <<>> THEN dailyData
    ELSE LET d == DailyReading(dailyData, channelId, Head(readings))
             rest == Tail(readings)
         IN  IF d = d /\ rest = rest
             THEN DailyReadings(d, channelId, rest)
             ELSE d

RECURSIVE DailyChannels(_, _)
DailyChannels(dailyData, channels) ==
    IF channels = <<>> THEN dailyData
    ELSE LET d == DailyReadings(dailyData, Head(channels).channelId,
                                Head(channels).data.data)
             rest == Tail(channels)
         IN  IF d = d /\ rest = rest
             THEN DailyChannels(d, rest)
             ELSE d

SeqMin(q) == Num(CHOOSE v \in {q[i] : i \in 1..Len(q)} : \A i \in 1..Len(q) : v <= q[i])
SeqMax(q) == Num(CHOOSE v \in {q[i] : i \in 1..Len(q)} : \A i \in 1..Len(q) : v >= q[i])

\* The map over the sorted keys of dailyData that ends aggregateDaily.
DailyRows(dailyData, keys) ==
    [i \in 1..Len(keys) |->
        [date |-> keys[i],
         tempMin |-> IF Len(dailyData[keys[i]].temps) > 0
                     THEN SeqMin(dailyData[keys[i]].temps) ELSE NullField,
         tempMax |-> IF Len(dailyData[keys[i]].temps) > 0
                     THEN SeqMax(dailyData[keys[i]].temps) ELSE NullField,
         tempCurrent |-> dailyData[keys[i]].lastTemp,
         humidity |-> Mean0(dailyData[keys[i]].humidity),
         windSpeed |-> Mean1(dailyData[keys[i]].windSpeed),
         rain |-> Sum1(dailyData[keys[i]].rain)]]

DailySorted(dailyData) == DailyRows(dailyData, SortKeys(DOMAIN dailyData))

aggregateDaily(channels) == DailySorted(DailyChannels(Empty0, channels))

\* ------------------------------------------- fallbackForecast.ts: synthetic
\* Math.random(), in hundredths; one draw stands for the draws of a series.
RandomDraws == {0, 99}

\* Rounding to the nearest unit, as toFixed does.
RoundDiv(a, b) == (2 * a + b) \div (2 * b)

\* Math.sin(dayIndex * 0.5) * 3, in tenths, for dayIndex 0..29.
tempVariation ==
    <<0, 14, 25, 30, 27, 18, 4, -11, -23, -29, -29, -21, -8, 6, 20, 28,
      30, 24, 12, -2, -16, -26, -30, -26, -16, -2, 13, 24, 30, 28>>

\* Math.sin((hourOfDay - 6) * Math.PI / 12) * 4, in tenths, for hours 0..23.
dailyTempCurve ==
    <<-40, -39, -35, -28, -20, -10, 0, 10, 20, 28, 35, 39,
      40, 39, 35, 28, 20, 10, 0, -10, -20, -28, -35, -39>>

\* One pass of the daily generator's loop body.
DailyEntry(currentDate, dayIndex, baseTemp, u) ==
    LET dailyVariation == RoundDiv(u, 5) - 10
        variation == tempVariation[dayIndex + 1]
    IN  [date |-> <<currentDate>>,
         tempMin |-> Num(baseTemp + variation - 30 + dailyVariation),
         tempMax |-> Num(baseTemp + variation + 50 + dailyVariation),
         tempCurrent |-> Num(baseTemp + variation + dailyVariation),
         humidity |-> Num(10 * RoundDiv(6000 + 20 * u, 100)),
         windSpeed |-> Num(RoundDiv(200 + 5 * u, 10)),
         rain |-> IF u < 20 THEN Num(RoundDiv(5 * u, 10)) ELSE NullField]

\* The while loop of the daily generator, from currentDate on; forecast is
\* the list pushed so far. (The test of pushed computes it before the loop
\* goes on, so that the evaluation does not nest as deep as the list is long.)
RECURSIVE DailyLoop(_, _, _, _, _, _)
DailyLoop(forecast, currentDate, to, dayIndex, baseTemp, u) ==
    IF currentDate <= to
    THEN LET pushed == Append(forecast, DailyEntry(currentDate, dayIndex, baseTemp, u))
         IN  IF pushed = pushed
             THEN DailyLoop(pushed, currentDate + 1, to, dayIndex + 1, baseTemp, u)
             ELSE pushed
    ELSE forecast

\* Variant: the loop stops before the last day of the range.
generateFallbackDailyForecast_exclusive(fromDate, toDate, baseTemp, u) ==
    DailyLoop(<<>>, fromDate, toDate - 1, 0, baseTemp, u)

generateFallbackDailyForecast(fromDate, toDate, baseTemp, u) ==
    DailyLoop(<<>>, fromDate, toDate, 0, baseTemp, u)

\* One pass of the hourly generator's loop body.
HourlyEntry(currentHour, baseTemp, u) ==
    [time |-> <<currentHour \div 24, currentHour % 24>>,
     temp |-> Num(baseTemp + dailyTempCurve[(currentHour % 24) + 1] + RoundDiv(u, 5) - 10),
     humidity |-> Num(10 * RoundDiv(7000 - 20 * dailyTempCurve[(currentHour % 24) + 1]
                                    + 10 * u, 100)),
     windSpeed |-> Num(RoundDiv(300 + 4 * u, 10)),
     windDir |-> Num(10 * RoundDiv(360 * u, 100)),
     rain |-> IF u < 10 THEN Num(RoundDiv(2 * u, 10)) ELSE NullField]

\* The while loop of the hourly generator; currentHour and to count hours
\* (to is 23:59:59 of the last day, so the loop runs while currentHour < to + 1
\* in whole hours).
RECURSIVE HourlyLoop(_, _, _, _, _)
HourlyLoop(forecast, currentHour, to, baseTemp, u) ==
    IF currentHour <= to
    THEN LET pushed == Append(forecast, HourlyEntry(currentHour, baseTemp, u))
         IN  IF pushed = pushed
             THEN HourlyLoop(pushed, currentHour + 1, to, baseTemp, u)
             ELSE pushed
    ELSE forecast

generateFallbackHourlyForecast(fromDate, toDate, baseTemp, u) ==
    HourlyLoop(<<>>, 24 * fromDate, 24 * toDate + 23, baseTemp, u)

generateFallbackForecast(period, fromDate, toDate, baseTemp, u) ==
    IF period = "today"
    THEN generateFallbackHourlyForecast(fromDate, toDate, baseTemp, u)
    ELSE generateFallbackDailyForecast(fromDate, toDate, baseTemp, u)

\* ------------------------------------------ xmlParser.ts / forecastAdapter.ts
\* A city feed file of a download directory: absent, not an RSS document, or
\* a document with items. An item carries its pubDate and what
\* extractForecastData finds in its text (NullField: nothing found).
FeedItem(d, temp) ==
    [pubDate |-> d,
     extracted |-> [temp |-> temp, tempMin |-> NullField, tempMax |-> NullField,
                    humidity |-> NullField, windSpeed |-> NullField,
                    windDir |-> NullField, rain |-> NullField]]

FeedFiles(d) ==
    {[status |-> "missing", items |-> <<>>],
     [status |-> "malformed", items |-> <<>>],
     [status |-> "ok", items |-> <<>>],
     [status |-> "ok", items |-> <<FeedItem(d, Num(210)), FeedItem(d + 1, NullField)>>]}

\* What the feed tier of a request sees.
FeedOutcome(dir, dirs) ==
    IF dir = <<>> THEN "nodir"
    ELSE IF dirs[dir].status # "ok" THEN dirs[dir].status
    ELSE IF dirs[dir].items = <<>> THEN "empty"
    ELSE "items"

\* The lexicographically last date directory, and its last time directory.
getMostRecentDownloadDir(dirs) ==
    IF DOMAIN dirs = {} THEN <<>>
    ELSE CHOOSE d \in DOMAIN dirs : \A e \in DOMAIN dirs : KeyLeq(e, d)

getCityForecast(dir, dirs) ==
    IF dirs[dir].status = "ok"
    THEN [threw |-> FALSE, items |-> dirs[dir].items]
    ELSE [threw |-> TRUE, items |-> <<>>]

\* f || g on extracted strings: any extracted string is non-empty.
OrElse(f, g) == IF f.kind = "num" THEN f ELSE g

convertToHourlyFormat(forecasts, period, day, hour) ==
    IF period = "today" /\ Len(forecasts) > 0
    THEN [i \in 1..48 |->
            [time |-> <<day + (hour + i - 1) \div 24, (hour + i - 1) % 24>>,
             temp |-> OrElse(forecasts[1].extracted.temp, NA),
             humidity |-> OrElse(forecasts[1].extracted.humidity, NA),
             windSpeed |-> OrElse(forecasts[1].extracted.windSpeed, NA),
             windDir |-> OrElse(forecasts[1].extracted.windDir, NA),
             rain |-> OrElse(forecasts[1].extracted.rain, Num(0))]]
    ELSE <<>>

convertToDailyFormat(forecasts) ==
    [i \in 1..Len(forecasts) |->
        [date |-> <<forecasts[i].pubDate>>,
         tempMin |-> OrElse(forecasts[i].extracted.tempMin,
                            OrElse(forecasts[i].extracted.temp, NA)),
         tempMax |-> OrElse(forecasts[i].extracted.tempMax,
                            OrElse(forecasts[i].extracted.temp, NA)),
         tempCurrent |-> OrElse(forecasts[i].extracted.temp, NA),
         humidity |-> OrElse(forecasts[i].extracted.humidity, NA),
         windSpeed |-> OrElse(forecasts[i].extracted.windSpeed, NA),
         rain |-> OrElse(forecasts[i].extracted.rain, Num(0))]]

formatForecastResponse(period, dateRange, forecasts, day, hour) ==
    [source |-> "xml", period |-> period, dateRange |-> dateRange,
     forecast |-> IF period = "today"
                  THEN convertToHourlyFormat(forecasts, period, day, hour)
                  ELSE convertToDailyFormat(forecasts)]

\* ------------------------------------- xmlDownloader.ts / xmlDataManager.ts
\* data/YYYY-MM-DD/HH-MM-SS: the date is the one of toISOString(), the UTC
\* date; the time of day the one of toTimeString(), the server's local clock.
createTimestampedDirectory(day, hourUTC, offset) ==
    <<day, (hourUTC + offset + 24) % 24>>

\* What a download run can come to: "done", all feeds asked for and
\* metadata.json written; "nometadata", the directory made and the write of
\* metadata.json failed; "nodir", the directory could not be made. The last
\* two throw. file is what the run left for the city feed.
RunOutcomes == {"done", "nometadata", "nodir"}

downloadAllFeeds(dirs, meta, day, hourUTC, offset, outcome, file) ==
    LET targetDir == createTimestampedDirectory(day, hourUTC, offset)
    IN  IF outcome = "nodir"
        THEN [dirs |-> dirs, meta |-> meta, threw |-> TRUE, created |-> <<>>]
        ELSE IF outcome = "nometadata"
        THEN [dirs |-> With(dirs, targetDir, file), meta |-> meta, threw |-> TRUE,
              created |-> targetDir]
        ELSE [dirs |-> With(dirs, targetDir, file),
              meta |-> With(meta, targetDir, 24 * day + hourUTC),
              threw |-> FALSE, created |-> targetDir]

\* Removes the date directories before the UTC date daysToKeep days ago.
cleanOldDownloads(f, day, daysToKeep) ==
    [d \in {e \in DOMAIN f : ~(e[1] < day - daysToKeep)} |-> f[d]]

STALE_THRESHOLD_HOURS == 6

\* age <<>> is null: no directory, or no metadata.json to read a time from.
getDataStatus(dirs, meta, day, hourUTC) ==
    LET downloadDir == getMostRecentDownloadDir(dirs)
    IN  IF downloadDir = <<>>
        THEN [exists |-> FALSE, age |-> <<>>, isStale |-> TRUE]
        ELSE IF downloadDir \notin DOMAIN meta
        THEN [exists |-> TRUE, age |-> <<>>, isStale |-> TRUE]
        ELSE LET ageHours == 24 * day + hourUTC - meta[downloadDir]
             IN  [exists |-> TRUE, age |-> <<ageHours>>,
                  isStale |-> ageHours > STALE_THRESHOLD_HOURS]

\* A refresh that ran: the download, then the cleanup unless the download
\* threw.
Refreshed(run, day) ==
    IF run.threw THEN run
    ELSE [run EXCEPT !.dirs = cleanOldDownloads(run.dirs, day, 7),
                     !.meta = cleanOldDownloads(run.meta, day, 7)]

\* Variant: a failed refresh of stale data is raised to the caller.
ensureFreshData_raiseStale(dirs, meta, day, hourUTC, offset, force, run) ==
    LET status == getDataStatus(dirs, meta, day, hourUTC)
    IN  IF ~status.exists \/ force \/ status.isStale
        THEN [dirs |-> IF status.exists THEN Refreshed(run, day).dirs ELSE run.dirs,
              meta |-> IF status.exists THEN Refreshed(run, day).meta ELSE run.meta,
              started |-> TRUE, threw |-> run.threw, status |-> status]
        ELSE [dirs |-> dirs, meta |-> meta, started |-> FALSE, threw |-> FALSE,
              status |-> status]

\* run is what the download comes to if it is started.
ensureFreshData(dirs, meta, day, hourUTC, offset, force, run) ==
    LET status == getDataStatus(dirs, meta, day, hourUTC)
    IN  IF ~status.exists
        THEN [dirs |-> run.dirs, meta |-> run.meta, started |-> TRUE,
              threw |-> run.threw, status |-> status]
        ELSE IF force
        THEN [dirs |-> Refreshed(run, day).dirs, meta |-> Refreshed(run, day).meta,
              started |-> TRUE, threw |-> run.threw, status |-> status]
        ELSE IF status.isStale
        THEN [dirs |-> Refreshed(run, day).dirs, meta |-> Refreshed(run, day).meta,
              started |-> TRUE, threw |-> FALSE, status |-> status]
        ELSE [dirs |-> dirs, meta |-> meta, started |-> FALSE, threw |-> FALSE,
              status |-> status]

\* ------------------------------------------------ imsApi.ts: /api/forecast
\* Station lists the stations endpoint can return (as cached values).
StationsOf(v) == IF v = "A" THEN {1, 2} ELSE IF v = "B" THEN {1} ELSE {}

\* The stationId of the query; NoStationId is a query without one.
NoStationId == 0
StationIdInputs == {NoStationId, 1, 2}

\* What getStations does when the cache asks for it.
StationsUpstream ==
    {[kind |-> "throws", value |-> Null], Returning("A"), Returning("B"), Returning(Null)}

\* The channels the station service answers for; the others fail.
ChannelOutcomes == {{}, {7}, {1, 2, 3, 4, 5, 6, 7, 8, 9, 10}}

MaxObsDays == 3

\* The response of getStationData for a channel: days days of readings from
\* day from on, two a day.
StationData(id, from, days) ==
    [i \in 1..(2 * days) |->
        [datetime |-> <<from + (i - 1) \div 2, IF i % 2 = 1 THEN 9 ELSE 15, 0>>,
         channels |-> <<[value |-> 100 + 10 * id + 7 * i, valid |-> TRUE]>>]]

FetchOutcome(okChannels, from, days) ==
    [id \in 1..10 |->
        IF id \in okChannels
        THEN [ok |-> TRUE, readings |-> StationData(id, from, days)]
        ELSE [ok |-> FALSE, readings |-> <<>>]]

NoRange == [from |-> 0, to |-> 0]

\* status 0: no request answered yet. found, origin, feed, fetched and
\* aggregated record how the response came about: whether the station was
\* found, the tier the forecast list came from, what the feed tier saw, the
\* channels fetched, and what the aggregation of their readings gave; at is
\* the hour at which a 200 response was produced, and upstream the number of
\* getStationData calls issued for it.
NoResponse ==
    [status |-> 0, source |-> "", stationId |-> 0, period |-> "none",
     dateRange |-> NoRange,
     forecast |-> <<>>, found |-> FALSE, origin |-> "", feed |-> "", fetched |-> 0,
     aggregated |-> <<>>, at |-> 0, upstream |-> 0]

ErrorResponse(status, found, feed) ==
    [NoResponse EXCEPT !.status = status, !.found = found, !.feed = feed]

\* Variant: a feed that cannot be read fails the request.
tryXmlForecast_noCatch(period, dateRange, dir, dirs, day, hour) ==
    IF dir = <<>>
    THEN [done |-> FALSE, threw |-> FALSE, response |-> NoResponse]
    ELSE LET cityForecasts == getCityForecast(dir, dirs)
         IN  IF cityForecasts.threw
             THEN [done |-> FALSE, threw |-> TRUE, response |-> NoResponse]
             ELSE IF Len(cityForecasts.items) > 0
             THEN [done |-> TRUE, threw |-> FALSE,
                   response |-> formatForecastResponse(period, dateRange,
                                                       cityForecasts.items, day, hour)]
             ELSE [done |-> FALSE, threw |-> FALSE, response |-> NoResponse]

\* The feed tier: done when the feed answered; threw is what escapes it.
tryXmlForecast(period, dateRange, dir, dirs, day, hour) ==
    IF dir = <<>>
    THEN [done |-> FALSE, threw |-> FALSE, response |-> NoResponse]
    ELSE LET cityForecasts == getCityForecast(dir, dirs)
         IN  IF cityForecasts.threw
             THEN [done |-> FALSE, threw |-> FALSE, response |-> NoResponse]
             ELSE IF Len(cityForecasts.items) > 0
             THEN [done |-> TRUE, threw |-> FALSE,
                   response |-> formatForecastResponse(period, dateRange,
                                                       cityForecasts.items, day, hour)]
             ELSE [done |-> FALSE, threw |-> FALSE, response |-> NoResponse]

\* The end of the observation tier: the check for insufficient data, the
\* synthetic tier, and the response body. forecast is the aggregation of the
\* fetched channels.
stationResponse(period, dateRange, fetched, forecast, u) ==
    LET expectedDays == dateRange.to - dateRange.from + 1
        min3 == IF expectedDays < 3 THEN expectedDays ELSE 3
        insufficient == period # "today" /\ Len(forecast) < min3
    IN  [source |-> "station", period |-> period, dateRange |-> dateRange,
         forecast |-> IF insufficient
                      THEN generateFallbackForecast(OrToday(period), dateRange.from,
                                                    dateRange.to, 200, u)
                      ELSE forecast,
         origin |-> IF insufficient THEN "synthetic" ELSE "observations",
         fetched |-> fetched, aggregated |-> forecast,
         upstream |-> Len(ChannelIds)]

\* The aggregation the period asks for.
aggregate(period, channels) ==
    IF period = "today" THEN aggregateHourly(channels) ELSE aggregateDaily(channels)

aggregateFetched(period, dateRange, channels, u) ==
    stationResponse(period, dateRange, Len(channels), aggregate(period, channels), u)

\* The observation tier and the synthetic tier after it.
stationForecast(period, dateRange, fetch, u) ==
    aggregateFetched(period, dateRange, getStationDataMultiChannel(ChannelIds, fetch), u)

\* The handler after its lookups: stations is what cache.get gave for the
\* stations list, feed and xml what the feed tier saw and did, obs what the
\* tiers after it give.
respond(mem, files, stationId, stations, feed, xml, obs, at) ==
    IF stationId = NoStationId
    THEN [res |-> ErrorResponse(400, FALSE, ""), mem |-> mem, files |-> files]
    ELSE IF stations.error # "none"
    THEN [res |-> ErrorResponse(500, FALSE, ""),
          mem |-> stations.mem, files |-> stations.files]
    ELSE IF stations.result \notin {Null, "A", "B"}
    THEN [res |-> ErrorResponse(500, FALSE, ""),
          mem |-> stations.mem, files |-> stations.files]
    ELSE IF stationId \notin StationsOf(stations.result)
    THEN [res |-> ErrorResponse(404, FALSE, ""),
          mem |-> stations.mem, files |-> stations.files]
    ELSE IF xml.threw
    THEN [res |-> ErrorResponse(500, TRUE, feed),
          mem |-> stations.mem, files |-> stations.files]
    ELSE IF xml.done
    THEN [res |-> [status |-> 200, source |-> xml.response.source,
                   stationId |-> stationId,
                   period |-> xml.response.period,
                   dateRange |-> xml.response.dateRange,
                   forecast |-> xml.response.forecast,
                   found |-> TRUE, origin |-> "feed", feed |-> feed, fetched |-> 0,
                   aggregated |-> <<>>, at |-> at, upstream |-> 0],
          mem |-> stations.mem, files |-> stations.files]
    ELSE [res |-> [status |-> 200, source |-> obs.source,
                   stationId |-> stationId, period |-> obs.period,
                   dateRange |-> obs.dateRange, forecast |-> obs.forecast,
                   found |-> TRUE, origin |-> obs.origin, feed |-> feed,
                   fetched |-> obs.fetched, aggregated |-> obs.aggregated,
                   at |-> at, upstream |-> obs.upstream],
          mem |-> stations.mem, files |-> stations.files]

\* The handler, from the query to the response; it returns the cache tiers
\* as its stations lookup leaves them.
forecastHandler(mem, files, stationId, period, upstream, dirs, fetch, u, t, hour, disk) ==
    LET dateRange == forecastDateRange(period, t)
        dir == getMostRecentDownloadDir(dirs)
    IN  respond(mem, files, stationId,
                get(mem, files, "stations", CHOOSE p \in ParamSet : TRUE,
                    upstream, 0, t, disk),
                FeedOutcome(dir, dirs),
                tryXmlForecast(period, dateRange, dir, dirs, t, hour),
                stationForecast(period, dateRange, fetch, u),
                24 * t + hour)

\* --------------------------------------------------- cityStationMapping.ts
\* The forecast cities, in list order; coordinates in units of 0.0001 degree.
CITIES ==
    <<[id |-> "jerusalem", latitude |-> 317683, longitude |-> 352137],
      [id |-> "telaviv", latitude |-> 320853, longitude |-> 347818],
      [id |-> "haifa", latitude |-> 327940, longitude |-> 349896],
      [id |-> "beersheva", latitude |-> 312518, longitude |-> 347913],
      [id |-> "eilat", latitude |-> 295581, longitude |-> 349482],
      [id |-> "tiberias", latitude |-> 327940, longitude |-> 355308],
      [id |-> "nazareth", latitude |-> 327046, longitude |-> 352978],
      [id |-> "afula", latitude |-> 326074, longitude |-> 352897],
      [id |-> "beitdagan", latitude |-> 320025, longitude |-> 348213],
      [id |-> "zefat", latitude |-> 329658, longitude |-> 354983],
      [id |-> "lod", latitude |-> 319510, longitude |-> 348880],
      [id |-> "dimona", latitude |-> 310686, longitude |-> 350333],
      [id |-> "yotvata", latitude |-> 299000, longitude |-> 350667],
      [id |-> "deadsea", latitude |-> 313547, longitude |-> 354736],
      [id |-> "mitzperamon", latitude |-> 306095, longitude |-> 348016]>>

\* a * b / s on non-negative integers, kept within 32 bits.
MulDiv(a, b, s) == (a \div s) * b + ((a % s) * b) \div s

\* degrees * Math.PI / 180: from 0.0001 degree to microradians.
toMicroRadians(d) == MulDiv(IF d < 0 THEN -d ELSE d, 17453, 10000)

\* Math.sin of a small angle in microradians, in millionths: x - x^3/6.
Sin(x) == x - (((x * x) \div 1000000) * x) \div 6000000

\* Math.cos of a latitude in microradians, in ten-thousandths:
\* 1 - x^2/2 + x^4/24.
Cos(x) ==
    LET m2 == (x \div 100) * (x \div 100)
    IN  10000 - m2 \div 20000 + ((m2 \div 1000) * (m2 \div 1000)) \div 24000000

\* Math.sqrt, rounded down.
RECURSIVE SqrtBetween(_, _, _)
SqrtBetween(a, lo, hi) ==
    IF lo >= hi THEN lo
    ELSE LET mid == (lo + hi + 1) \div 2
         IN  IF mid * mid <= a THEN SqrtBetween(a, mid, hi)
             ELSE SqrtBetween(a, lo, mid - 1)

\* 2 * Math.atan2(Math.sqrt(a), Math.sqrt(1 - a)) for a small a, that is
\* 2 * asin(sqrt(a)): from a in 10^-12 to microradians, 2 * (r + r^3/6).
Atan2Twice(a) ==
    LET r == SqrtBetween(a, 0, 46340)
    IN  2 * (r + (((r * r) \div 1000000) * r) \div 6000000)

\* The haversine distance, in metres.
calculateDistance(lat1, lon1, lat2, lon2) ==
    LET R == 6371
        dLat == toMicroRadians(lat2 - lat1)
        dLon == toMicroRadians(lon2 - lon1)
        sLat == Sin(dLat \div 2)
        sLon == Sin(dLon \div 2)
        cc == (Cos(toMicroRadians(lat1)) * Cos(toMicroRadians(lat2))) \div 10000
        a == sLat * sLat + MulDiv(sLon * sLon, cc, 10000)
    IN  (R * Atan2Twice(a)) \div 1000

\* minDistance: Infinity, or a distance.
Infinity == [inf |-> TRUE, v |-> 0]
Finite(v) == [inf |-> FALSE, v |-> v]

\* Variant: a city as far as the nearest so far replaces it.
Closer_orEqual(distance, minDistance) == minDistance.inf \/ distance <= minDistance.v

\* distance < minDistance
Closer(distance, minDistance) == minDistance.inf \/ distance < minDistance.v

\* The loop over CITIES from index i on; nearestCity 0 is null.
RECURSIVE NearestFrom(_, _, _, _, _)
NearestFrom(i, nearestCity, minDistance, latitude, longitude) ==
    IF i > Len(CITIES) THEN [nearestCity |-> nearestCity, minDistance |-> minDistance]
    ELSE LET distance == calculateDistance(latitude, longitude,
                                           CITIES[i].latitude, CITIES[i].longitude)
         IN  IF Closer(distance, minDistance)
             THEN NearestFrom(i + 1, i, Finite(distance), latitude, longitude)
             ELSE NearestFrom(i + 1, nearestCity, minDistance, latitude, longitude)

findNearestCity(latitude, longitude) ==
    LET found == NearestFrom(1, 0, Infinity, latitude, longitude)
        nearestCity == IF found.nearestCity = 0 THEN 2 ELSE found.nearestCity
    IN  [id |-> CITIES[nearestCity].id,
         latitude |-> CITIES[nearestCity].latitude,
         longitude |-> CITIES[nearestCity].longitude,
         distance |-> found.minDistance]

\* --------------------------------------------------------------- state
VARIABLES
    now,          \* Date.now(), in days
    memoryCache,  \* the in-process Map: key -> [data, timestamp]
    cacheFiles,   \* the files of CACHE_DIR: key -> [data, timestamp]
    disk,         \* whether the fs calls on CACHE_DIR succeed: "ok" or "down"
    last,         \* history: the latest cache operation and what it returned
    downloads,    \* the data directory: download directory name -> city feed file
    res,          \* the latest /api/forecast response (and how it was produced)
    calc,         \* a library function under check: its arguments, then its result
    stored,       \* history, kept by Get and Set: key -> when the value the cache
                  \* holds for it was handed over by set or by a producer
    inflight,     \* the cache calls that have started and not yet returned
    utcHour,      \* the hour of the day of Date.now(), UTC
    zone,         \* the server's time zone: hours ahead of UTC
    metadata,     \* download directory name -> timestamp of its metadata.json,
                  \* in hours
    refresh       \* history: the latest ensureFreshData call and what it did

cacheVars == <<now, memoryCache, cacheFiles, disk, last, stored>>
refreshVars == <<utcHour, zone, metadata, refresh>>
forecastVars == <<downloads, res, calc, inflight, refreshVars>>
vars == <<now, memoryCache, cacheFiles, disk, last, downloads, res, calc, stored,
          inflight, refreshVars>>

Empty == [x \in {} |-> Null]

\* No ensureFreshData call was made.
NoRefresh ==
    [op |-> "none", force |-> FALSE, exists |-> FALSE, age |-> <<>>, isStale |-> FALSE,
     started |-> FALSE, failed |-> FALSE, threw |-> FALSE, before |-> Empty,
     metadataBefore |-> Empty, created |-> <<>>]

\* No library function is under check.
NoCalc == [fn |-> "none"]

NoCall == [op |-> "none", type |-> "stations", params |-> CHOOSE p \in ParamSet : TRUE,
           fetcher |-> "none", value |-> Null, duration |-> 0,
           result |-> Null, error |-> "none", fetcherCalled |-> FALSE,
           fileRead |-> FALSE, before |-> 0]

Init ==
    /\ now = 0
    /\ memoryCache = Empty
    /\ cacheFiles = Empty
    /\ disk = "ok"
    /\ last = NoCall
    /\ downloads = Empty
    /\ res = NoResponse
    /\ calc = NoCalc
    /\ stored = Empty
    /\ inflight = Empty
    /\ utcHour = 0
    /\ zone = 0
    /\ metadata = Empty
    /\ refresh = NoRefresh

\* The model populates one key at a time: an operation on a key starts only
\* when no other key holds an entry (every operation but clear touches its
\* own key only).
OnlyKey(key) == DOMAIN memoryCache \cup DOMAIN cacheFiles \subseteq {key}

\* export async function get
Get(type, params, fetcher, durationOpt) ==
    LET r == get(memoryCache, cacheFiles, type, params, fetcher, durationOpt, now, disk)
    IN  /\ OnlyKey(getCacheKey(type, params))
        /\ memoryCache' = r.mem
        /\ cacheFiles' = r.files
        /\ last' = [NoCall EXCEPT !.op = "get", !.type = type, !.params = params,
                       !.fetcher = fetcher.kind, !.value = fetcher.value,
                       !.duration = durationOpt,
                       !.result = r.result, !.error = r.error,
                       !.fetcherCalled = r.fetcherCalled, !.fileRead = r.fileRead]
        /\ stored' = IF r.fetcherCalled /\ fetcher.kind = "returns"
                     THEN With(stored, getCacheKey(type, params), now)
                     ELSE stored
        /\ UNCHANGED <<now, disk, forecastVars>>

\* export async function set
Set(type, data, params) ==
    LET r == set(memoryCache, cacheFiles, type, data, params, now, disk)
    IN  /\ OnlyKey(getCacheKey(type, params))
        /\ memoryCache' = r.mem
        /\ cacheFiles' = r.files
        /\ last' = [NoCall EXCEPT !.op = "set", !.type = type, !.params = params,
                                  !.value = data, !.error = r.error]
        /\ stored' = With(stored, getCacheKey(type, params), now)
        /\ UNCHANGED <<now, disk, forecastVars>>

\* export async function clear; before counts the entries it found.
Clear ==
    /\ memoryCache' = Empty
    /\ cacheFiles' = clearFiles(cacheFiles, disk)
    /\ last' = [NoCall EXCEPT !.op = "clear",
                   !.before = Cardinality(DOMAIN memoryCache)
                              + Cardinality(DOMAIN cacheFiles)]
    /\ UNCHANGED <<now, disk, stored, forecastVars>>

\* A process restart: the module-level Map is created empty, the files stay.
Restart ==
    /\ memoryCache' = Empty
    /\ last' = [NoCall EXCEPT !.op = "restart"]
    /\ UNCHANGED <<now, cacheFiles, disk, stored, forecastVars>>

\* The durable store starts failing, or works again.
DiskChange ==
    /\ disk' = IF disk = "ok" THEN "down" ELSE "ok"
    /\ last' = [NoCall EXCEPT !.op = "disk"]
    /\ UNCHANGED <<now, memoryCache, cacheFiles, stored, forecastVars>>

\* The clock advances.
Tick ==
    /\ now < MaxTime
    /\ now' = now + 1
    /\ last' = [NoCall EXCEPT !.op = "tick"]
    /\ UNCHANGED <<memoryCache, cacheFiles, disk, stored, forecastVars>>

Next ==
    \/ \E type \in CacheTypes, params \in ParamSet, fetcher \in Fetchers,
          d \in DurationOptions :
          Get(type, params, fetcher, d)
    \/ \E type \in CacheTypes, data \in Values, params \in ParamSet :
          Set(type, data, params)
    \/ Clear
    \/ Restart
    \/ DiskChange
    \/ Tick

Spec == Init /\ [][Next]_vars

\* ------------------------------------------------------- forecast service
\* The hour of the day at which a request arrives.
HoursOfDay == {0, 13}

\* The times of day at which a download starts.
DownloadTimes == {0, 1}

\* What a request leaves: the response and the cache tiers.
Handled(h) ==
    /\ res' = h.res
    /\ memoryCache' = h.mem
    /\ cacheFiles' = h.files
    /\ UNCHANGED <<now, disk, last, downloads, calc, stored, inflight, refreshVars>>

ForecastRequest(stationId, period, upstream, okChannels, days, u, hour) ==
    /\ res = NoResponse
    /\ Handled(forecastHandler(memoryCache, cacheFiles, stationId, period, upstream,
                               downloads,
                               FetchOutcome(okChannels,
                                            forecastDateRange(period, now).from, days),
                               u, now, hour, disk))

\* xmlDownloader.ts: a download run leaves a new directory, named by date and
\* time of day, holding what the feed service delivered for the city.
DownloadAllFeeds(time, file) ==
    /\ <<now, time>> \notin DOMAIN downloads
    /\ downloads' = With(downloads, <<now, time>>, file)
    /\ UNCHANGED <<cacheVars, res, calc, inflight, refreshVars>>

\* The response leaves; the service is ready for the next request.
SendResponse ==
    /\ res # NoResponse
    /\ res' = NoResponse
    /\ UNCHANGED <<cacheVars, downloads, calc, inflight, refreshVars>>

NextForecast ==
    \/ \E stationId \in StationIdInputs, period \in Periods,
          upstream \in StationsUpstream, okChannels \in ChannelOutcomes,
          days \in 0..MaxObsDays, u \in RandomDraws, hour \in HoursOfDay :
          ForecastRequest(stationId, period, upstream, okChannels, days, u, hour)
    \/ SendResponse
    \/ \E time \in DownloadTimes, file \in FeedFiles(now) :
          DownloadAllFeeds(time, file)

SpecForecast == Init /\ [][NextForecast]_vars

\* ------------------------------------------- repeated forecast requests
\* The station and period of the latest 200 response are requested again, no
\* earlier than that response was produced.
ForecastAgain(upstream, okChannels, days, u, hour) ==
    /\ res.status = 200
    /\ 24 * now + hour >= res.at
    /\ Handled(forecastHandler(memoryCache, cacheFiles, res.stationId, res.period,
                               upstream, downloads,
                               FetchOutcome(okChannels,
                                            forecastDateRange(res.period, now).from,
                                            days),
                               u, now, hour, disk))

\* Repeated requests are checked with the stations endpoint answering and
\* the station service holding readings for MaxObsDays days.
NextRepeat ==
    \/ \E stationId \in StationIdInputs, period \in Periods,
          okChannels \in ChannelOutcomes, u \in RandomDraws, hour \in HoursOfDay :
          ForecastRequest(stationId, period, Returning("A"), okChannels,
                          MaxObsDays, u, hour)
    \/ \E okChannels \in ChannelOutcomes, u \in RandomDraws, hour \in HoursOfDay :
          ForecastAgain(Returning("A"), okChannels, MaxObsDays, u, hour)
    \/ Tick

SpecRepeat == Init /\ [][NextRepeat]_vars

\* -------------------------------------------------- the synthetic generator
\* The lengths, in days, of the ranges the generators are applied to; 0 is a
\* range whose end lies before its start. The hourly generator is applied to
\* the ranges of at most MaxHourlyDays days.
MaxWindow == 7
MaxHourlyDays == 3
Windows == 0..MaxWindow \cup {30}
FromDates == 0..2
BaseTemps == {180, 200}

\* Everything but calc is as after construction.
Idle ==
    /\ now = 0
    /\ memoryCache = Empty
    /\ cacheFiles = Empty
    /\ disk = "ok"
    /\ last = NoCall
    /\ downloads = Empty
    /\ res = NoResponse
    /\ stored = Empty
    /\ inflight = Empty
    /\ utcHour = 0
    /\ zone = 0
    /\ metadata = Empty
    /\ refresh = NoRefresh

InitSynthetic ==
    /\ Idle
    /\ calc \in {[fn |-> "args", fromDate |-> f, toDate |-> f + w - 1,
                  baseTemp |-> b, u |-> u] :
                    f \in FromDates, w \in Windows, b \in BaseTemps, u \in RandomDraws}

GenerateDaily ==
    /\ calc.fn = "args"
    /\ calc' = [fn |-> "daily", fromDate |-> calc.fromDate, toDate |-> calc.toDate,
                result |-> generateFallbackDailyForecast(calc.fromDate, calc.toDate,
                                                         calc.baseTemp, calc.u)]
    /\ UNCHANGED <<cacheVars, downloads, res, inflight, refreshVars>>

\* The hourly generator serves the short ranges.
GenerateHourly ==
    /\ calc.fn = "args"
    /\ calc.toDate - calc.fromDate < MaxHourlyDays
    /\ calc' = [fn |-> "hourly", fromDate |-> calc.fromDate, toDate |-> calc.toDate,
                result |-> generateFallbackHourlyForecast(calc.fromDate, calc.toDate,
                                                          calc.baseTemp, calc.u)]
    /\ UNCHANGED <<cacheVars, downloads, res, inflight, refreshVars>>

NextSynthetic == GenerateDaily \/ GenerateHourly

SpecSynthetic == InitSynthetic /\ [][NextSynthetic]_vars

\* ------------------------------------------------------- the aggregation
\* The readings the rollups are applied to: two in one hour, one later the
\* same day flagged invalid, a zero on the next day, and one that carries
\* no channel value.
Reading(dt, value, valid) ==
    [datetime |-> dt, channels |-> <<[value |-> value, valid |-> valid]>>]

ReadingPool ==
    {Reading(<<0, 9, 0>>, 200, TRUE), Reading(<<0, 9, 30>>, 220, TRUE),
     Reading(<<0, 15, 0>>, 185, FALSE), Reading(<<1, 9, 0>>, 0, TRUE),
     [datetime |-> <<0, 15, 30>>, channels |-> <<>>]}

MaxReadings == 3

ReadingLists(n) == UNION {[1..k -> ReadingPool] : k \in 0..n}

ChannelItem(id, readings) == [channelId |-> id, data |-> [data |-> readings]]

\* No data set, one of up to MaxReadings readings, or two short ones; channel 2
\* is a channel the rollups have no field for.
ChannelInputs ==
    {<<>>}
    \cup {<<ChannelItem(id, q)>> : id \in {7, 8, 1}, q \in ReadingLists(MaxReadings)}
    \cup {<<ChannelItem(7, q[1]), ChannelItem(id, q[2])>> :
             id \in {7, 4, 5, 2}, q \in ReadingLists(1) \X ReadingLists(1)}

InitAggregate ==
    /\ Idle
    /\ calc \in {[fn |-> "args", channels |-> c] : c \in ChannelInputs}

AggregateHourly ==
    /\ calc.fn = "args"
    /\ calc' = [fn |-> "hourly", channels |-> calc.channels,
                result |-> aggregateHourly(calc.channels)]
    /\ UNCHANGED <<cacheVars, downloads, res, inflight, refreshVars>>

AggregateDaily ==
    /\ calc.fn = "args"
    /\ calc' = [fn |-> "daily", channels |-> calc.channels,
                result |-> aggregateDaily(calc.channels)]
    /\ UNCHANGED <<cacheVars, downloads, res, inflight, refreshVars>>

NextAggregate == AggregateHourly \/ AggregateDaily

SpecAggregate == InitAggregate /\ [][NextAggregate]_vars

\* ------------------------------------------------------------ the fan-out
\* The channel id lists requested, in any order and with repetitions, and the
\* channels whose fetch succeeds.
MaxChannels == 3
FanOutIds == {1, 7, 8}
ChannelIdLists == UNION {[1..k -> FanOutIds] : k \in 0..MaxChannels}

InitFanOut ==
    /\ Idle
    /\ calc \in {[fn |-> "args", channelIds |-> ids, okChannels |-> ok] :
                    ids \in ChannelIdLists, ok \in SUBSET FanOutIds}

GetStationDataMultiChannel ==
    /\ calc.fn = "args"
    /\ calc' = [fn |-> "fanout", channelIds |-> calc.channelIds,
                okChannels |-> calc.okChannels,
                result |-> getStationDataMultiChannel(calc.channelIds,
                               FetchOutcome(calc.okChannels, 0, 1))]
    /\ UNCHANGED <<cacheVars, downloads, res, inflight, refreshVars>>

NextFanOut == GetStationDataMultiChannel

SpecFanOut == InitFanOut /\ [][NextFanOut]_vars

\* --------------------------------------------------------- the date windows
\* The clock of a request, in hours UTC since day 0, and its period; "year"
\* is a period the routes do not know.
MaxDay == 3
ClockHours == 0..(24 * MaxDay - 1)
DatePeriods == Periods \cup {"year"}

\* new Date(Date.UTC(year, month, date)) of the clock
UTCDate(hours) == hours \div 24

InitDates ==
    /\ Idle
    /\ calc \in {[fn |-> "args", period |-> p, clock |-> h] :
                    p \in DatePeriods, h \in ClockHours}

\* Each route computes its window from the period of the query.
ForecastRoute ==
    /\ calc.fn = "args"
    /\ calc' = [fn |-> "forecast", period |-> calc.period, clock |-> calc.clock,
                result |-> forecastDateRange(calc.period, UTCDate(calc.clock))]
    /\ UNCHANGED <<cacheVars, downloads, res, inflight, refreshVars>>

StationDataRoute ==
    /\ calc.fn = "args"
    /\ calc' = [fn |-> "station-data", period |-> calc.period, clock |-> calc.clock,
                result |-> stationDataDateRange(calc.period, UTCDate(calc.clock))]
    /\ UNCHANGED <<cacheVars, downloads, res, inflight, refreshVars>>

StationDetailRoute ==
    /\ calc.fn = "args"
    /\ calc' = [fn |-> "station-detail", period |-> calc.period, clock |-> calc.clock,
                result |-> stationDetailDateRange(calc.period, UTCDate(calc.clock))]
    /\ UNCHANGED <<cacheVars, downloads, res, inflight, refreshVars>>

NextDates == ForecastRoute \/ StationDataRoute \/ StationDetailRoute

SpecDates == InitDates /\ [][NextDates]_vars

\* ------------------------------------------------------- the nearest city
\* Station coordinates: the cities themselves, a grid over the country in
\* steps of a quarter degree, and one in steps of 0.01 degree between Tel
\* Aviv, Beit Dagan and Lod.
StationCoordinates ==
    {<<CITIES[i].latitude, CITIES[i].longitude>> : i \in 1..Len(CITIES)}
    \cup {<<295000 + 2500 * i, 345000 + 2500 * j>> : i \in 0..15, j \in 0..4}
    \cup {<<318500 + 100 * i, 347200 + 100 * j>> : i \in 0..4, j \in 0..4}

InitNearest ==
    /\ Idle
    /\ calc \in {[fn |-> "args", latitude |-> c[1], longitude |-> c[2]] :
                    c \in StationCoordinates}

FindNearestCity ==
    /\ calc.fn = "args"
    /\ calc' = [fn |-> "nearest", latitude |-> calc.latitude,
                longitude |-> calc.longitude,
                result |-> findNearestCity(calc.latitude, calc.longitude)]
    /\ UNCHANGED <<cacheVars, downloads, res, inflight, refreshVars>>

SpecNearest == InitNearest /\ [][FindNearestCity]_vars

\* ------------------------------------------------------ the feed refresh
\* The clock moves in steps of three hours within the day and of eight days,
\* up to MaxRefreshDay; the server runs three hours behind UTC, on UTC, or
\* three hours ahead; at most MaxRuns directories are made.
MaxRefreshDay == 9
MaxRuns == 2
Zones == {-3, 0, 3}

InitRefresh ==
    /\ now = 0 /\ memoryCache = Empty /\ cacheFiles = Empty /\ disk = "ok"
    /\ last = NoCall /\ downloads = Empty /\ res = NoResponse /\ stored = Empty
    /\ inflight = Empty /\ calc = NoCalc
    /\ utcHour = 0 /\ zone \in Zones /\ metadata = Empty /\ refresh = NoRefresh

\* A call of ensureFreshData; a download it starts makes a directory no
\* earlier run has made, since no two runs start within the same second.
EnsureFreshData(force, outcome, file) ==
    LET run == downloadAllFeeds(downloads, metadata, now, utcHour, zone, outcome, file)
        done == ensureFreshData(downloads, metadata, now, utcHour, zone, force, run)
    IN  /\ done.started =>
              /\ createTimestampedDirectory(now, utcHour, zone) \notin DOMAIN downloads
              /\ Cardinality(DOMAIN downloads) < MaxRuns
        /\ downloads' = done.dirs
        /\ metadata' = done.meta
        /\ refresh' = [op |-> "ensureFreshData", force |-> force,
                       exists |-> done.status.exists, age |-> done.status.age,
                       isStale |-> done.status.isStale,
                       started |-> done.started,
                       failed |-> done.started /\ run.threw, threw |-> done.threw,
                       before |-> downloads, metadataBefore |-> metadata,
                       created |-> IF done.started /\ run.created # <<>>
                                   THEN run.created ELSE refresh.created]
        /\ UNCHANGED <<cacheVars, res, calc, inflight, utcHour, zone>>

\* Three hours pass, within the day.
Hours(n) ==
    /\ utcHour + n < 24
    /\ utcHour' = utcHour + n
    /\ refresh' = [NoRefresh EXCEPT !.created = refresh.created]
    /\ UNCHANGED <<cacheVars, downloads, res, calc, inflight, zone, metadata>>

\* Days pass.
Days(n) ==
    /\ now + n < MaxRefreshDay
    /\ now' = now + n
    /\ refresh' = [NoRefresh EXCEPT !.created = refresh.created]
    /\ UNCHANGED <<memoryCache, cacheFiles, disk, last, stored, downloads, res, calc,
                   inflight, utcHour, zone, metadata>>

NextRefresh ==
    \/ \E force \in BOOLEAN, outcome \in RunOutcomes :
          EnsureFreshData(force, outcome, [status |-> "ok", items |-> <<>>])
    \/ Hours(3)
    \/ Days(8)

SpecRefresh == InitRefresh /\ [][NextRefresh]_vars

\* ------------------------------------------------- overlapping cache calls
\* The calls of cache.get (with a fetcher) and cache.set on the stations
\* key, taken apart at their awaits: readFile, the fetcher, and the open and
\* the write of fs.writeFile. The clock stands still and the store works.
MaxCalls == 2
CallKey == getCacheKey("stations", CHOOSE p \in ParamSet : TRUE)

\* A file that JSON.parse rejects: "empty" after the open of a writeFile has
\* truncated it, "mixed" when a write has left bytes of an earlier, longer
\* write behind its own.
Unparsable(kind) == [data |-> Null, timestamp |-> 0, unparsable |-> kind]
Parsable(file) == "unparsable" \notin DOMAIN file

Call(op, pc, value) ==
    [op |-> op, pc |-> pc, value |-> value, result |-> Null, fetcherCalled |-> FALSE]

\* get up to its first await: the memory lookup, then readFile is issued.
StartGet(id, value) ==
    /\ id \notin DOMAIN inflight
    /\ LET m == getFromMemory(memoryCache, CallKey, CACHE_DURATIONS.stations, now)
       IN  /\ memoryCache' = m.mem
           /\ inflight' = IF Truthy(m.data)
                          THEN With(inflight, id,
                                    [Call("get", "done", value) EXCEPT !.result = m.data])
                          ELSE With(inflight, id, Call("get", "readFile", value))
    /\ UNCHANGED cacheFiles
    /\ UNCHANGED <<now, disk, last, stored, downloads, res, calc, refreshVars>>

\* readFile settles: a file that parses is promoted and returned; after a
\* missing or unparsable one the fetcher is called.
ReadFile(id) ==
    /\ id \in DOMAIN inflight /\ inflight[id].pc = "readFile"
    /\ IF CallKey \in DOMAIN cacheFiles /\ Parsable(cacheFiles[CallKey])
       THEN LET f == getFromFile(cacheFiles, memoryCache, CallKey,
                                 CACHE_DURATIONS.stations, now, disk)
            IN  /\ memoryCache' = f.mem
                /\ inflight' = [inflight EXCEPT ![id].pc = "done", ![id].result = f.data]
       ELSE /\ memoryCache' = memoryCache
            /\ inflight' = [inflight EXCEPT ![id].pc = "fetcher",
                                            ![id].fetcherCalled = TRUE]
    /\ UNCHANGED cacheFiles
    /\ UNCHANGED <<now, disk, last, stored, downloads, res, calc, refreshVars>>

\* The fetcher settles: setInMemory, then writeFile is issued.
FetcherReturns(id) ==
    /\ id \in DOMAIN inflight /\ inflight[id].pc = "fetcher"
    /\ memoryCache' = setInMemory(memoryCache, CallKey, inflight[id].value, now)
    /\ inflight' = [inflight EXCEPT ![id].pc = "open"]
    /\ UNCHANGED cacheFiles
    /\ UNCHANGED <<now, disk, last, stored, downloads, res, calc, refreshVars>>

\* set up to its await: setInMemory, then writeFile is issued.
StartSet(id, value) ==
    /\ id \notin DOMAIN inflight
    /\ memoryCache' = setInMemory(memoryCache, CallKey, value, now)
    /\ inflight' = With(inflight, id, Call("set", "open", value))
    /\ UNCHANGED cacheFiles
    /\ UNCHANGED <<now, disk, last, stored, downloads, res, calc, refreshVars>>

\* fs.writeFile opens the file with flag 'w': it is made or truncated.
OpenFile(id) ==
    /\ id \in DOMAIN inflight /\ inflight[id].pc = "open"
    /\ cacheFiles' = With(cacheFiles, CallKey, Unparsable("empty"))
    /\ inflight' = [inflight EXCEPT ![id].pc = "write"]
    /\ UNCHANGED memoryCache
    /\ UNCHANGED <<now, disk, last, stored, downloads, res, calc, refreshVars>>

\* fs.writeFile writes from offset 0 and closes; the call returns. Bytes
\* another writeFile wrote since this one's open stay behind the end of this
\* write if they reach further: mixed tells whether they do.
WriteFile(id, mixed) ==
    /\ id \in DOMAIN inflight /\ inflight[id].pc = "write"
    /\ LET mine == setInFile(cacheFiles, CallKey, inflight[id].value, now, disk).files
           theirs == cacheFiles[CallKey]
       IN  cacheFiles' =
               IF /\ mixed
                  /\ theirs # Unparsable("empty")
                  /\ theirs # mine[CallKey]
               THEN With(cacheFiles, CallKey, Unparsable("mixed"))
               ELSE mine
    /\ inflight' = [inflight EXCEPT
                        ![id].pc = "done",
                        ![id].result = IF inflight[id].op = "get"
                                       THEN inflight[id].value ELSE Null]
    /\ UNCHANGED memoryCache
    /\ UNCHANGED <<now, disk, last, stored, downloads, res, calc, refreshVars>>

NextConcurrent ==
    \/ \E id \in 1..MaxCalls, value \in {"A", "B"} : StartGet(id, value)
    \/ \E id \in 1..MaxCalls, value \in {"A", "B"} : StartSet(id, value)
    \/ \E id \in 1..MaxCalls : ReadFile(id)
    \/ \E id \in 1..MaxCalls : FetcherReturns(id)
    \/ \E id \in 1..MaxCalls : OpenFile(id)
    \/ \E id \in 1..MaxCalls, mixed \in BOOLEAN : WriteFile(id, mixed)

SpecConcurrent == Init /\ [][NextConcurrent]_vars

\* ------------------------------------------------------------- cache claims
LastKey == getCacheKey(last.type, last.params)

\* The step just taken stored a value: a set, or a get whose fetcher returned.
Stored(l) == l.op = "set" \/ (l.op = "get" /\ l.fetcherCalled /\ l.error = "none")

\* What a get without fetcher and with the default duration would return at
\* time t in the state (mem, files), the durable store working.
Lookup(mem, files, type, params, t) ==
    get(mem, files, type, params, NoFetcher, 0, t, "ok").result

\* C1: a value v stored at time s by set or by a producer fetch is returned by
\* a later get (no producer, nothing else done in between) at time t if and
\* only if t - s <= duration of the type; later than that get returns absent.
\* (For v = null the returned value and "absent" coincide, so v ranges over
\* the other values.)
C1_CacheExpiryInvariant ==
    [][(Stored(last') /\ last'.value # Null) =>
         \A t \in now'..MaxTime :
            (Lookup(memoryCache', cacheFiles', last'.type, last'.params, t) = last'.value)
              <=> (t - now' <= CACHE_DURATIONS[last'.type])]_vars

\* C2: immediately after set(type, v, params) completes, get(type, params)
\* without producer returns v, for every value v, the falsy ones included.
C2_SetThenGet ==
    [][(last'.op = "set") =>
         get(memoryCache', cacheFiles', last'.type, last'.params, NoFetcher, 0,
             now', disk').result = last'.value]_vars

C4_NullResultCached ==
    [][(last'.op = "get" /\ last'.fetcherCalled /\ last'.error = "none"
          /\ ~Truthy(last'.value)) =>
         LET again == get(memoryCache', cacheFiles', last'.type, last'.params,
                          Returning("A"), last'.duration, now', disk')
         IN  ~again.fetcherCalled /\ again.result = last'.value]_vars

\* An entry of a tier that is present and not expired for a get at time t.
Live(tier, key, duration, t) ==
    key \in DOMAIN tier /\ ~isExpired(tier[key].timestamp, duration, t)

\* C5: an unexpired memory entry is returned without reading the durable
\* store; on a memory miss an unexpired durable record is returned and copied
\* into memory, so that the next get does not read the durable store; the
\* producer is invoked only when neither tier has an unexpired entry.
C5_LookupOrder ==
    [][(last'.op = "get") =>
         LET key == getCacheKey(last'.type, last'.params)
             d == duration_for(last'.type, last'.duration)
             memLive == Live(memoryCache, key, d, now)
             fileLive == disk = "ok" /\ Live(cacheFiles, key, d, now)
             again == get(memoryCache', cacheFiles', last'.type, last'.params,
                          NoFetcher, last'.duration, now', disk')
         IN  /\ memLive => /\ last'.result = memoryCache[key].data
                           /\ ~last'.fileRead /\ ~last'.fetcherCalled
             /\ (~memLive /\ fileLive) =>
                           /\ last'.result = cacheFiles[key].data
                           /\ ~last'.fetcherCalled
                           /\ ~again.fileRead /\ again.result = last'.result
             /\ last'.fetcherCalled => ~memLive /\ ~fileLive]_vars

AllAbsent ==
    \A type \in CacheTypes, params \in ParamSet, d \in DurationOptions,
       dk \in {"ok", "down"} :
       get(memoryCache, cacheFiles, type, params, NoFetcher, d, now, dk).result = Null

C8_DurableFailureNonFatal ==
    [][(disk = "down") =>
          LET key == getCacheKey(last'.type, last'.params)
              d == duration_for(last'.type, last'.duration)
              memHit == Live(memoryCache, key, d, now) /\ Truthy(memoryCache[key].data)
          IN  /\ last'.error \in {"none", "fetcher"}
              /\ last'.error = "fetcher" => last'.op = "get" /\ last'.fetcher = "throws"
              /\ (last'.op = "get" /\ last'.fetcher = "returns") =>
                    /\ last'.error = "none"
                    /\ IF memHit THEN last'.result = memoryCache[key].data
                                 ELSE last'.fetcherCalled /\ last'.result = last'.value
              /\ (last'.op = "set") =>
                    /\ last'.error = "none"
                    /\ memoryCache'[key] = [data |-> last'.value, timestamp |-> now]
              /\ (last'.op \in {"get", "set", "clear"}) => cacheFiles' = cacheFiles]_vars

\* C8 witness: with the durable store down, a get has returned its producer's
\* value although a record for the key sits in the store.
C8_Witness ==
    /\ disk = "down" /\ last.op = "get" /\ last.fetcherCalled
    /\ last.error = "none" /\ last.result = "B"
    /\ LastKey \in DOMAIN cacheFiles /\ cacheFiles[LastKey].data = "A"

C9_Witness_NoDir == res.status = 200 /\ res.found /\ res.feed = "nodir" /\ res.fetched = 0
C9_Witness_Missing == res.status = 200 /\ res.found /\ res.feed = "missing" /\ res.fetched = 0
C9_Witness_Empty == res.status = 200 /\ res.found /\ res.feed = "empty" /\ res.fetched = 0
C10_SourceTagging ==
    res.status = 200 =>
        /\ res.origin = "feed" => res.source = "xml"
        /\ res.origin = "observations" => res.source = "station"
        /\ res.origin = "synthetic" => res.source \notin {"xml", "station"}

\* C11: every forecast request that resolves its station returns some data:
\* whatever the period and whatever the feed and observation tiers gave, the
\* forecast list of the response is not empty.
C11_SomeData ==
    (res.status = 200 /\ res.found) => Len(res.forecast) > 0

\* The number of periods of the requested window: its hours for today, its
\* days otherwise.
ExpectedPeriods(r) ==
    IF r.period = "today" THEN 24 * (r.dateRange.to - r.dateRange.from + 1)
    ELSE r.dateRange.to - r.dateRange.from + 1

Min3(n) == IF n < 3 THEN n ELSE 3

\* C12: in the observations tier, for every period, an aggregated result of
\* fewer than min(3, expected) periods is replaced by generated data, and one
\* of at least min(3, expected) periods is returned unchanged.
C12_CoverageSufficiency ==
    (res.status = 200 /\ res.origin \in {"observations", "synthetic"}) =>
        IF Len(res.aggregated) < Min3(ExpectedPeriods(res))
        THEN /\ res.origin = "synthetic"
             /\ \E u \in RandomDraws :
                   res.forecast = generateFallbackForecast(OrToday(res.period),
                                      res.dateRange.from, res.dateRange.to, 200, u)
        ELSE /\ res.origin = "observations"
             /\ res.forecast = res.aggregated

\* C13: for a range with fromDate <= toDate the daily generator returns one
\* entry per day of the inclusive range, on consecutive ascending dates from
\* fromDate on, each with tempMin and tempMax set; the hourly generator
\* returns 24 entries per day of the range, hour after hour from 00:00 of
\* fromDate on.
C13_SyntheticCoverage ==
    LET n == calc.toDate - calc.fromDate + 1
    IN  /\ (calc.fn = "daily" /\ calc.fromDate <= calc.toDate) =>
              /\ Len(calc.result) = n
              /\ \A i \in 1..Len(calc.result) :
                    /\ calc.result[i].date = <<calc.fromDate + i - 1>>
                    /\ calc.result[i].tempMin.kind = "num"
                    /\ calc.result[i].tempMax.kind = "num"
        /\ (calc.fn = "hourly" /\ calc.fromDate <= calc.toDate) =>
              /\ Len(calc.result) = 24 * n
              /\ \A i \in 1..Len(calc.result) :
                    calc.result[i].time =
                        <<calc.fromDate + (i - 1) \div 24, (i - 1) % 24>>

\* A 7-day range gave 7 daily entries.
C13_Witness ==
    /\ calc.fn = "daily"
    /\ calc.toDate = calc.fromDate + 6
    /\ Len(calc.result) = 7

C13_Witness_Month ==
    calc.fn = "daily" /\ calc.toDate = calc.fromDate + 29 /\ Len(calc.result) = 30

C13_Witness_Hourly ==
    calc.fn = "hourly" /\ calc.toDate = calc.fromDate + 1 /\ Len(calc.result) = 48

\* ------------------------------------------------------ aggregation claims
\* The readings of all data sets, as (data set index, reading index) pairs.
ReadingIdx(channels) ==
    UNION {{<<c, r>> : r \in 1..Len(channels[c].data.data)} : c \in 1..Len(channels)}

ReadingAt(channels, x) == channels[x[1]].data.data[x[2]]

ValueAt(channels, x) == ReadingAt(channels, x).channels[1].value

\* The readings of channel id that carry a value and fall in bucket k.
InBucket(channels, bucketOf(_), k, id) ==
    {x \in ReadingIdx(channels) :
        /\ bucketOf(ReadingAt(channels, x)) = k
        /\ channels[x[1]].channelId = id
        /\ Len(ReadingAt(channels, x).channels) >= 1}

RECURSIVE SumOf(_, _)
SumOf(channels, S) ==
    IF S = {} THEN 0
    ELSE LET x == CHOOSE x \in S : TRUE
         IN  ValueAt(channels, x) + SumOf(channels, S \ {x})

\* The mean of the readings S to one decimal or to a whole number, and their
\* sum; null when there are none.
MeanOf1(channels, S) ==
    IF S = {} THEN NullField ELSE toFixed1(SumOf(channels, S), Cardinality(S))
MeanOf0(channels, S) ==
    IF S = {} THEN NullField ELSE toFixed0(SumOf(channels, S), Cardinality(S))
TotalOf(channels, S) ==
    IF S = {} THEN NullField ELSE toFixed1(SumOf(channels, S), 1)

\* The output has one entry per bucket a reading falls in, in ascending order.
Buckets(channels, out, bucketOf(_), keyOf(_)) ==
    /\ {keyOf(out[i]) : i \in 1..Len(out)} =
          {bucketOf(ReadingAt(channels, x)) : x \in ReadingIdx(channels)}
    /\ \A i \in 1..(Len(out) - 1) : Later(keyOf(out[i + 1]), keyOf(out[i]))

TimeOf(e) == e.time
DateOf(e) == e.date

\* C14: aggregateHourly has one entry per clock hour a reading falls in; its
\* temp, humidity, windSpeed and windDir are the means of the hour's readings
\* of channels 7, 8, 4 and 5, its rain the sum of those of channel 1, and a
\* field is null exactly when the hour has no reading of its channel.
C14_HourlyAggregation ==
    calc.fn = "hourly" =>
        LET ch == calc.channels
            out == calc.result
            S(i, id) == InBucket(ch, hourKey, out[i].time, id)
        IN  /\ Buckets(ch, out, hourKey, TimeOf)
            /\ \A i \in 1..Len(out) :
                  /\ out[i].temp = MeanOf1(ch, S(i, 7))
                  /\ out[i].humidity = MeanOf0(ch, S(i, 8))
                  /\ out[i].windSpeed = MeanOf1(ch, S(i, 4))
                  /\ out[i].windDir = MeanOf0(ch, S(i, 5))
                  /\ out[i].rain = TotalOf(ch, S(i, 1))
                  /\ (out[i].temp = NullField) <=> (S(i, 7) = {})
                  /\ (out[i].rain = NullField) <=> (S(i, 1) = {})

\* Two temperature readings of one hour, 20.0 and 22.0, gave "21.0", and the
\* wind fields of that hour are null.
C14_Witness ==
    /\ calc.fn = "hourly"
    /\ \E i \in 1..Len(calc.result) :
          /\ calc.result[i].time = <<0, 9>>
          /\ calc.result[i].temp = Num(210)
          /\ calc.result[i].windSpeed = NullField

\* The temperature readings of S none of which is later than x.
Latest(channels, S) ==
    {x \in S : \A y \in S :
        ~Later(ReadingAt(channels, y).datetime, ReadingAt(channels, x).datetime)}

Valid(reading) == Len(reading.channels) = 0 \/ reading.channels[1].valid

RemoveInvalid(channels) ==
    [c \in 1..Len(channels) |->
        ChannelItem(channels[c].channelId, SelectSeq(channels[c].data.data, Valid))]

\* C16: a reading flagged invalid contributes to no field of any bucket: the
\* rollups of an input are those of the input without its invalid readings.
C16_InvalidExcluded ==
    /\ calc.fn = "hourly" => calc.result = aggregateHourly(RemoveInvalid(calc.channels))
    /\ calc.fn = "daily" => calc.result = aggregateDaily(RemoveInvalid(calc.channels))

\* ---------------------------------------------------------- fan-out claims
\* The requested ids whose fetch succeeded, in the order requested.
RECURSIVE Succeeded(_, _)
Succeeded(ids, ok) ==
    IF ids = <<>> THEN <<>>
    ELSE (IF Head(ids) \in ok THEN <<Head(ids)>> ELSE <<>>) \o Succeeded(Tail(ids), ok)

\* C17: getStationDataMultiChannel never rejects; its result holds exactly the
\* channels whose fetch succeeded, each with the data fetched, in the order
\* the ids were requested; a failed fetch only removes its channel, and all
\* fetches failing gives the empty list.
C17_FanOutTolerance ==
    calc.fn = "fanout" =>
        LET want == Succeeded(calc.channelIds, calc.okChannels)
        IN  /\ Len(calc.result) = Len(want)
            /\ \A i \in 1..Len(want) :
                  /\ calc.result[i].channelId = want[i]
                  /\ calc.result[i].data.data = StationData(want[i], 0, 1)
            /\ (\A i \in 1..Len(calc.channelIds) :
                   calc.channelIds[i] \notin calc.okChannels) => calc.result = <<>>

\* Of three channels requested the middle one failed; the other two are
\* returned in the order requested.
C17_Witness ==
    /\ calc.fn = "fanout"
    /\ calc.channelIds = <<8, 1, 7>>
    /\ calc.okChannels = {7, 8}
    /\ Len(calc.result) = 2
    /\ calc.result[1].channelId = 8
    /\ calc.result[2].channelId = 7

\* -------------------------------------------------------- date window claims
\* The length of the window of a period; a period not known counts as today.
Ahead(period) ==
    IF period = "week" THEN 6 ELSE IF period = "month" THEN 29 ELSE 1
Back(period) ==
    IF period = "week" THEN 7 ELSE IF period = "month" THEN 30 ELSE 2

C18_Witness_Historical ==
    /\ calc.fn = "station-detail"
    /\ calc.period = "month"
    /\ calc.result = [from |-> -29, to |-> 1]

\* ------------------------------------------------------------------ C19
\* The hours between the response before a request and the response to it.
HoursSince == res'.at - res.at

\* C19: a request for the station and date window of the latest successful
\* response, answered less than 24 hours after it, issues no fetch of station
\* observations.
C19_ForecastCached ==
    [][(/\ res.status = 200
        /\ res'.status = 200
        /\ res' # res
        /\ res'.stationId = res.stationId
        /\ res'.dateRange = res.dateRange
        /\ HoursSince < 24)
       => res'.upstream = 0]_vars

\* ------------------------------------------------------------------ C20
\* The download directories made after directory d.
RefreshesAfter(dirs, d) == {e \in DOMAIN dirs : Later(e, d)}

\* An earlier download left feed documents with items for the city, and every
\* refresh after it failed to download the city's feed.
StaleFeedLeft(dirs) ==
    \E d \in DOMAIN dirs :
        /\ FeedOutcome(d, dirs) = "items"
        /\ RefreshesAfter(dirs, d) # {}
        /\ \A e \in RefreshesAfter(dirs, d) : dirs[e].status = "missing"

\* C20: when feed documents of an earlier download exist and every later
\* refresh failed, a forecast request that is answered 200 is served from the
\* feed.
C20_StaleFeedSurvives ==
    [][(/\ res = NoResponse
        /\ res'.status = 200
        /\ StaleFeedLeft(downloads))
       => res'.origin = "feed"]_vars

\* ------------------------------------------------------------------ C26
\* The latest operation is a get that returned a cached value.
GetHit == last.op = "get" /\ ~last.fetcherCalled /\ Truthy(last.result)

\* C26: a get never returns a cached value more than duration after the
\* moment the value was stored by set or by a producer fetch.
C26_NoLifeExtension ==
    GetHit =>
        now - stored[getCacheKey(last.type, last.params)]
            <= duration_for(last.type, last.duration)

\* ------------------------------------------------------------------ C28
\* The key of the operation a step performs.
StepKey == getCacheKey(last'.type, last'.params)

\* The entry of a tier is valid under the default duration of the type.
ValidByDefault(tier) ==
    /\ StepKey \in DOMAIN tier
    /\ ~isExpired(tier[StepKey].timestamp, CACHE_DURATIONS[last'.type], now)

\* C28: a get leaves in place, in either tier, an entry that is still valid
\* under the default duration of its type, whatever duration the get passes.
C28_OverrideLocal ==
    [][last'.op = "get" =>
          /\ ValidByDefault(memoryCache) => StepKey \in DOMAIN memoryCache'
          /\ ValidByDefault(cacheFiles) => StepKey \in DOMAIN cacheFiles']_vars

\* The channels each rollup has a field for (utils.ts:151-167, 203-216).
HourlyKnown == {1, 4, 5, 7, 8}
DailyKnown == {1, 4, 7, 8}

KnownOnly(channels, known) ==
    SelectSeq(channels, LAMBDA c : c.channelId \in known)

\* C22: a data set of a channel the rollup has no field for is ignored: the
\* output is the output of the same input without that data set, so it adds
\* no bucket and changes no field.
C22_UnknownIgnored ==
    /\ calc.fn = "hourly" =>
          calc.result = aggregateHourly(KnownOnly(calc.channels, HourlyKnown))
    /\ calc.fn = "daily" =>
          calc.result = aggregateDaily(KnownOnly(calc.channels, DailyKnown))

AllReadings(channels) ==
    {ReadingAt(channels, x) : x \in ReadingIdx(channels)}

\* C23: each rollup returns one entry per distinct clock hour (calendar day)
\* among the input readings, in strictly ascending order of the key, hence
\* without duplicates; an input without data sets gives the empty list.
C23_OutputShape ==
    /\ calc.fn = "hourly" =>
          /\ Buckets(calc.channels, calc.result, hourKey, TimeOf)
          /\ Len(calc.result) =
                Cardinality({hourKey(r) : r \in AllReadings(calc.channels)})
          /\ calc.channels = <<>> => calc.result = <<>>
    /\ calc.fn = "daily" =>
          /\ Buckets(calc.channels, calc.result, dayKey, DateOf)
          /\ Len(calc.result) =
                Cardinality({dayKey(r) : r \in AllReadings(calc.channels)})
          /\ calc.channels = <<>> => calc.result = <<>>

\* Readings given latest hour first came out as two entries, earliest first.
C23_Witness ==
    /\ calc.fn = "hourly"
    /\ Len(calc.channels) = 1
    /\ Len(calc.channels[1].data.data) = 2
    /\ Later(calc.channels[1].data.data[1].datetime,
             calc.channels[1].data.data[2].datetime)
    /\ Len(calc.result) = 2
    /\ Later(calc.result[2].time, calc.result[1].time)

\* ------------------------------------------------------------------ C24
DistanceTo(i) ==
    calculateDistance(calc.latitude, calc.longitude,
                      CITIES[i].latitude, CITIES[i].longitude)

CityOf(result) == CHOOSE i \in 1..Len(CITIES) : CITIES[i].id = result.id

\* C24: findNearestCity returns a city of the list of 15 that no city of the
\* list is nearer than, with the distance to it; of the cities at that
\* distance it is the first in list order; and a coordinate that is a city's
\* own gives that city at distance 0.
C24_NearestCity ==
    calc.fn = "nearest" =>
        /\ Len(CITIES) = 15
        /\ \E i \in 1..Len(CITIES) : CITIES[i].id = calc.result.id
        /\ LET k == CityOf(calc.result)
           IN  /\ calc.result.distance = Finite(DistanceTo(k))
               /\ \A j \in 1..Len(CITIES) : DistanceTo(k) <= DistanceTo(j)
               /\ \A j \in 1..(k - 1) : DistanceTo(k) < DistanceTo(j)
               /\ \A j \in 1..Len(CITIES) :
                     (calc.latitude = CITIES[j].latitude
                      /\ calc.longitude = CITIES[j].longitude) =>
                         k = j /\ calc.result.distance = Finite(0)

\* A coordinate as far from Beit Dagan as from Lod, with no city nearer, was
\* resolved to Beit Dagan, the earlier of the two in the list.
C24_Witness ==
    /\ calc.fn = "nearest"
    /\ calc.result.id = "beitdagan"
    /\ DistanceTo(9) = DistanceTo(11)

\* The Tel Aviv coordinate was resolved to Tel Aviv at distance 0.
C24_Witness_Same ==
    /\ calc.fn = "nearest"
    /\ calc.latitude = 320853 /\ calc.longitude = 347818
    /\ calc.result.id = "telaviv"
    /\ calc.result.distance = Finite(0)

\* ------------------------------------------------------------ C25, C30
\* What the latest call found: no download directory at all; or a latest
\* directory whose metadata is missing or more than six hours old.
NoDataBefore == DOMAIN refresh.before = {}

StaleBefore ==
    LET d == getMostRecentDownloadDir(refresh.before)
    IN  \/ d \notin DOMAIN refresh.metadataBefore
        \/ 24 * now + utcHour - refresh.metadataBefore[d] > 6

\* C25: ensureFreshData starts a download exactly when there is no data, or
\* force is set, or the data is stale; a call that starts none leaves the
\* download directories as they were; a failed download is raised when there
\* was no data or force was set, and in no other case.
C25_RefreshDecision ==
    refresh.op = "ensureFreshData" =>
        /\ refresh.started <=> (NoDataBefore \/ refresh.force \/ StaleBefore)
        /\ ~refresh.started => downloads = refresh.before /\ metadata = refresh.metadataBefore
        /\ refresh.threw <=> (refresh.failed /\ (NoDataBefore \/ refresh.force))

\* Data nine hours old was refreshed without force; the download failed and
\* the call returned normally.
C25_Witness ==
    /\ refresh.op = "ensureFreshData"
    /\ ~refresh.force /\ refresh.exists /\ refresh.age = <<9>>
    /\ refresh.started /\ refresh.failed /\ ~refresh.threw

\* Data exactly six hours old was left alone.
C25_Witness_Fresh ==
    /\ refresh.op = "ensureFreshData"
    /\ ~refresh.force /\ refresh.age = <<6>> /\ ~refresh.started

\* C30: getMostRecentDownloadDir returns the directory the most recent
\* download run made, whatever the server's time zone, and returns null only
\* when there is no download directory.
C30_MostRecentDir ==
    /\ refresh.created \in DOMAIN downloads =>
          getMostRecentDownloadDir(downloads) = refresh.created
    /\ getMostRecentDownloadDir(downloads) = <<>> => DOMAIN downloads = {}

\* ------------------------------------------------------------ C21, C27
Quiet == \A id \in DOMAIN inflight : inflight[id].pc = "done"

HoldsOneOf(tier, values) ==
    /\ CallKey \in DOMAIN tier
    /\ Parsable(tier[CallKey])
    /\ tier[CallKey].data \in values

\* C21: when two overlapping gets of one key have both missed and called
\* their producers, each returns the value of its own producer, and once both
\* have returned each tier holds the value of one of the two.
C21_LastWriteWins ==
    (/\ DOMAIN inflight = 1..MaxCalls
     /\ \A id \in 1..MaxCalls : inflight[id].op = "get" /\ inflight[id].fetcherCalled
     /\ Quiet) =>
        /\ \A id \in 1..MaxCalls : inflight[id].result = inflight[id].value
        /\ HoldsOneOf(memoryCache, {inflight[id].value : id \in 1..MaxCalls})
        /\ HoldsOneOf(cacheFiles, {inflight[id].value : id \in 1..MaxCalls})

\* C27: once no call is in flight, the memory entry and the file of the key
\* hold the same value.
C27_TiersAgree ==
    (DOMAIN inflight # {} /\ Quiet) =>
        /\ CallKey \in DOMAIN memoryCache
        /\ CallKey \in DOMAIN cacheFiles
        /\ Parsable(cacheFiles[CallKey])
        /\ memoryCache[CallKey].data = cacheFiles[CallKey].data

\* C29: a request without a period is answered as one for today: every
\* entry of the response's forecast is an hourly point, whichever tier it
\* came from.
C29_OmittedPeriodIsToday ==
    (res.status = 200 /\ res.period = "none") =>
        \A i \in 1..Len(res.forecast) : "time" \in DOMAIN res.forecast[i]

TypeOK ==
    /\ now \in 0..MaxTime
    /\ DOMAIN memoryCache \subseteq Keys
    /\ DOMAIN cacheFiles \subseteq Keys
    /\ disk \in {"ok", "down"}
====
